---- MODULE Spec2Model ----
(***************************************************************************)
(* fork.py: fork a GitHub repository, wait until the fork is visible,      *)
(* ensure a release exists on it, mirror the source to GitLab and sign a   *)
(* summary.  One run of main() is modelled as a state machine whose        *)
(* program counter pc follows the calls main() makes.                      *)
(*                                                                         *)
(* Python strings are sequences of tokens, so that split, strip and        *)
(* concatenation are computed and not assumed.  Python's None is the       *)
(* record None, a str value s is Str(s).                                   *)
(***************************************************************************)
EXTENDS Integers, Sequences, FiniteSets, TLC

VARIABLES
    pc,             \* position of main(): see the actions
    env,            \* os.getenv values read by main() and fork_github_repo
    cfg,            \* the dict load_config returned
    source,         \* args.source
    max_attempts,   \* the bound of the polling loop, range(max_attempts)
    i,              \* the loop variable of the polling loop
    r,              \* the response of the fork-creation POST, None before
    fork_full_name, \* the local of fork_github_repo / fork_full of main
    checks,         \* number of GET /repos/{fork_full_name} issued
    sleeps,         \* number of time.sleep calls made
    slept,          \* total seconds passed to time.sleep
    polled,         \* the handles the existence checks were issued for
    first_ready,    \* attempt number of the first check answered 200, or 0
    first_other,    \* attempt number of the first check answered neither 200 nor 404, or 0
    last_status,    \* rr.status_code of the latest check; 0 before, -1 when the GET raised
    issued,         \* kinds of requests and calls issued so far
    error,          \* what ended the run early, "none" otherwise
    gitlab,         \* how the GitLab import ended
    exit_code       \* process exit status, -1 while running

vars == <<pc, env, cfg, source, max_attempts, i, r, fork_full_name, checks,
          sleeps, slept, polled, first_ready, first_other, last_status,
          issued, error, gitlab, exit_code>>

-----------------------------------------------------------------------------
(* Bounds and program constants *)

\* range(10) of the polling loop
DefaultAttempts == 10

\* time.sleep(2)
Delay == 2

\* the polling loop is also run with every bound 0..SmallAttempts
SmallAttempts == 3

AttemptBounds == (0..SmallAttempts) \cup {DefaultAttempts}

-----------------------------------------------------------------------------
(* Python values *)

None == [kind |-> "none", val |-> <<>>]

Str(s) == [kind |-> "str", val |-> s]

\* truth value of an Optional[str]: None and '' are false
Truthy(v) == v.kind = "str" /\ v.val # <<>>

\* a or b, on token sequences (str operands)
OrStr(a, b) == IF a # <<>> THEN a ELSE b

\* index of the first occurrence of token t in s, 0 when there is none
RECURSIVE IndexFrom(_, _, _)
IndexFrom(s, t, n) ==
    IF n > Len(s) THEN 0
    ELSE IF s[n] = t THEN n
    ELSE IndexFrom(s, t, n + 1)

IndexOf(s, t) == IndexFrom(s, t, 1)

\* str.strip(): leading and trailing blanks removed
RECURSIVE LStrip(_)
LStrip(s) == IF s # <<>> /\ Head(s) = " " THEN LStrip(Tail(s)) ELSE s

RECURSIVE RStrip(_)
RStrip(s) ==
    IF s # <<>> /\ s[Len(s)] = " " THEN RStrip(SubSeq(s, 1, Len(s) - 1)) ELSE s

Strip(s) == RStrip(LStrip(s))

\* s.split(sep)[0]
SplitFirst(s, sep) ==
    IF IndexOf(s, sep) = 0 THEN s ELSE SubSeq(s, 1, IndexOf(s, sep) - 1)

\* source.split('/', 1): a list of one or two strings
SplitOnce(s) ==
    IF IndexOf(s, "/") = 0 THEN <<s>>
    ELSE <<SubSeq(s, 1, IndexOf(s, "/") - 1),
           SubSeq(s, IndexOf(s, "/") + 1, Len(s))>>

-----------------------------------------------------------------------------
(* Inputs: what the environment, the configuration file and the two servers
   can hand to the program *)

\* args.source: "owner/repo", a repository path with a further slash, no slash
Sources == { <<"o", "/", "r">>, <<"o", "/", "r", "/", "x">>, <<"o">> }

Orgs == { <<>>, <<"org">> }

Users == { <<>>, <<"usr">> }

Actors == { None, Str(<<>>), Str(<<"act">>) }

\* Verification/AllowedMimeTypes after the split on ',': a list, as a set
AllowedLists == { {}, { <<"application/json">> } }

Cfgs == [github_org : Orgs, github_user : Users,
         require_mime : BOOLEAN, allowed_mime : AllowedLists]

Envs == [github_token : BOOLEAN, gitlab_token : BOOLEAN,
         hmac_secret : BOOLEAN, actor : Actors]

\* Content-Type header values; <<>> is a missing header
CtHeaders == { <<>>,
               <<"application/json">>,
               <<"application/json", " ", ";", " ", "charset=utf-8">>,
               <<"text/html">> }

\* status codes of the fork-creation and release requests
WriteStatuses == {199, 200, 299, 300}

\* 'full_name' of the fork-creation response body: missing, '' or a name
FullNames == { None, Str(<<>>), Str(<<"fk", "/", "r">>) }

\* status codes of GET /repos/{fork_full_name}
CheckStatuses == {200, 404, 401, 500}

\* status codes of POST /projects on GitLab
ImportStatuses == {201, 409, 500}

\* a request ends in a response or raises (connection error, timeout)
Transport == {"response", "raises"}

NoResponse == [status |-> 0, ctype |-> <<>>, full_name |-> None]

NoError == [kind |-> "none", at |-> "none"]

-----------------------------------------------------------------------------
(* verify_response *)

\* the allowed_mime argument the callers pass
AllowedArg(c) ==
    IF c.require_mime THEN [kind |-> "list", val |-> c.allowed_mime]
    ELSE [kind |-> "none", val |-> {}]

\* resp.headers.get('Content-Type','').split(';')[0].strip()
MediaType(header) == Strip(SplitFirst(header, ";"))

\* 200 <= resp.status_code < 300
StatusOk(status) == 200 <= status /\ status < 300

\* TRUE when verify_response returns True, FALSE when it raises RuntimeError
VerifyResponse(status, header, allowed) ==
    /\ StatusOk(status)
    /\ (allowed.kind = "list" /\ allowed.val # {})
          => MediaType(header) \in allowed.val

-----------------------------------------------------------------------------
(* fork_github_repo: the handle *)

ForkTargetUserFirst(c, e) ==
    OrStr(c.github_user,
          OrStr(c.github_org, IF Truthy(e.actor) THEN e.actor.val ELSE <<>>))

\* cfg['github_org'] or cfg['github_user'] or os.getenv('GITHUB_ACTOR') or ''
ForkTarget(c, e) ==
    OrStr(c.github_org,
          OrStr(c.github_user, IF Truthy(e.actor) THEN e.actor.val ELSE <<>>))

\* fork_info.get('full_name'), else f"{target}/{repo}"
ForkFullName(full_name, c, e, src) ==
    IF Truthy(full_name) THEN full_name.val
    ELSE ForkTarget(c, e) \o <<"/">> \o SplitOnce(src)[2]

-----------------------------------------------------------------------------
(* The run *)

InitOver(cfgs, envs, sources, bounds) ==
    /\ pc = "main"
    /\ cfg \in cfgs
    /\ env \in envs
    /\ source \in sources
    /\ max_attempts \in bounds
    /\ i = 0
    /\ r = NoResponse
    /\ fork_full_name = <<>>
    /\ checks = 0
    /\ sleeps = 0
    /\ slept = 0
    /\ polled = {}
    /\ first_ready = 0
    /\ first_other = 0
    /\ last_status = 0
    /\ issued = {}
    /\ error = NoError
    /\ gitlab = "none"
    /\ exit_code = -1

\* sys.exit(code), reached from stage `at` because of `kind`
Exit(code, kind, at) ==
    /\ pc' = "exit"
    /\ exit_code' = code
    /\ error' = [kind |-> kind, at |-> at]

WaitVars == <<i, checks, sleeps, slept, polled, first_ready, first_other, last_status>>

\* main(): the token check and load_config
MainStart ==
    /\ pc = "main"
    /\ IF ~env.github_token
       THEN Exit(3, "NoToken", "main")
       ELSE /\ pc' = "fork"
            /\ UNCHANGED <<exit_code, error>>
    /\ UNCHANGED <<env, cfg, source, max_attempts, r, fork_full_name, issued, gitlab>>
    /\ UNCHANGED WaitVars

\* fork_github_repo up to the polling loop; an exception leaves through
\* main()'s handler with sys.exit(4)
ForkCreate ==
    /\ pc = "fork"
    /\ UNCHANGED <<env, cfg, source, max_attempts, gitlab>>
    /\ UNCHANGED WaitVars
    /\ IF Len(SplitOnce(source)) # 2
       THEN \* owner, repo = source.split('/',1) raises ValueError
            /\ Exit(4, "ValueError", "create")
            /\ UNCHANGED <<r, fork_full_name, issued>>
       ELSE /\ issued' = issued \cup {"fork_post"}
            /\ \E t \in Transport, st \in WriteStatuses, h \in CtHeaders,
                  fn \in FullNames, json_ok \in BOOLEAN :
                 CASE t = "raises" ->
                        /\ Exit(4, "Transport", "create")
                        /\ UNCHANGED <<r, fork_full_name>>
                   [] t = "response" /\ ~VerifyResponse(st, h, AllowedArg(cfg)) ->
                        /\ r' = [status |-> st, ctype |-> h, full_name |-> None]
                        /\ Exit(4, "HTTP", "create")
                        /\ UNCHANGED fork_full_name
                   [] t = "response" /\ VerifyResponse(st, h, AllowedArg(cfg))
                        /\ ~json_ok ->
                        /\ r' = [status |-> st, ctype |-> h, full_name |-> None]
                        /\ Exit(4, "JSON", "create")
                        /\ UNCHANGED fork_full_name
                   [] OTHER ->
                        /\ r' = [status |-> st, ctype |-> h, full_name |-> fn]
                        /\ fork_full_name' = ForkFullName(fn, cfg, env, source)
                        /\ pc' = "poll"
                        /\ UNCHANGED <<exit_code, error>>

BreaksOnCreated(status) == status = 201

\* if rr.status_code == 200: break
Breaks(status) == status = 200

LoopHasNextInclusive(k, n) == k <= n

\* for i in range(n): the loop body runs while i < n
LoopHasNext(k, n) == k < n

\* one existence check: the GET of the loop body and the test of its status.
\* break leaves the loop, fork_github_repo returns and main() goes on
PollCheck ==
    /\ pc = "poll"
    /\ LoopHasNext(i, max_attempts)
    /\ checks' = checks + 1
    /\ polled' = polled \cup {fork_full_name}
    /\ issued' = issued \cup {"repo_get"}
    /\ UNCHANGED <<env, cfg, source, max_attempts, i, r, fork_full_name,
                   sleeps, slept, gitlab>>
    /\ \E t \in Transport, st \in CheckStatuses :
         IF t = "raises"
         THEN /\ Exit(4, "Transport", "poll")
              /\ last_status' = -1
              /\ UNCHANGED <<first_ready, first_other>>
         ELSE /\ last_status' = st
              /\ first_ready' =
                   IF st = 200 /\ first_ready = 0 THEN checks + 1 ELSE first_ready
              /\ first_other' =
                   IF st \notin {200, 404} /\ first_other = 0 THEN checks + 1
                   ELSE first_other
              /\ pc' = IF Breaks(st) THEN "release" ELSE "sleep"
              /\ UNCHANGED <<exit_code, error>>

SleepBackoff ==
    /\ pc = "sleep"
    /\ sleeps' = sleeps + 1
    /\ slept' = slept + Delay * (i + 1)
    /\ i' = i + 1
    /\ pc' = "poll"
    /\ UNCHANGED <<env, cfg, source, max_attempts, r, fork_full_name, checks,
                   polled, first_ready, first_other, last_status, issued,
                   error, gitlab, exit_code>>

\* time.sleep(2) and the step of the loop to its next iteration
Sleep ==
    /\ pc = "sleep"
    /\ sleeps' = sleeps + 1
    /\ slept' = slept + Delay
    /\ i' = i + 1
    /\ pc' = "poll"
    /\ UNCHANGED <<env, cfg, source, max_attempts, r, fork_full_name, checks,
                   polled, first_ready, first_other, last_status, issued,
                   error, gitlab, exit_code>>

PollExhaustedReturns ==
    /\ pc = "poll"
    /\ ~LoopHasNext(i, max_attempts)
    /\ pc' = "release"
    /\ UNCHANGED <<env, cfg, source, max_attempts, r, fork_full_name, issued,
                   gitlab, exit_code, error>>
    /\ UNCHANGED WaitVars

\* the else clause of the loop: the range is used up without a break
PollExhausted ==
    /\ pc = "poll"
    /\ ~LoopHasNext(i, max_attempts)
    /\ Exit(4, "Timeout", "poll")
    /\ UNCHANGED <<env, cfg, source, max_attempts, r, fork_full_name, issued, gitlab>>
    /\ UNCHANGED WaitVars

\* what GET .../releases returns as its body
ReleaseBodies == {"malformed", "empty", "releases"}

\* ensure_github_release, called by main(); an exception leaves through
\* main()'s handler with sys.exit(4)
EnsureRelease ==
    /\ pc = "release"
    /\ UNCHANGED <<env, cfg, source, max_attempts, r, fork_full_name, gitlab>>
    /\ UNCHANGED WaitVars
    /\ \E t1 \in Transport, st1 \in WriteStatuses, h1 \in CtHeaders,
          body \in ReleaseBodies :
         CASE t1 = "raises" ->
                /\ issued' = issued \cup {"releases_get"}
                /\ Exit(4, "Transport", "release")
           [] t1 = "response" /\ ~VerifyResponse(st1, h1, AllowedArg(cfg)) ->
                /\ issued' = issued \cup {"releases_get"}
                /\ Exit(4, "HTTP", "release")
           [] t1 = "response" /\ VerifyResponse(st1, h1, AllowedArg(cfg))
                /\ body = "malformed" ->
                /\ issued' = issued \cup {"releases_get"}
                /\ Exit(4, "JSON", "release")
           [] t1 = "response" /\ VerifyResponse(st1, h1, AllowedArg(cfg))
                /\ body = "releases" ->
                \* return releases[0].get('html_url')
                /\ issued' = issued \cup {"releases_get"}
                /\ pc' = "gitlab"
                /\ UNCHANGED <<exit_code, error>>
           [] OTHER ->
                \* no release yet: create one
                /\ issued' = issued \cup {"releases_get", "releases_post"}
                /\ \E t2 \in Transport, st2 \in WriteStatuses, h2 \in CtHeaders,
                      json_ok \in BOOLEAN :
                     CASE t2 = "raises" -> Exit(4, "Transport", "release")
                       [] t2 = "response"
                            /\ ~VerifyResponse(st2, h2, AllowedArg(cfg)) ->
                            Exit(4, "HTTP", "release")
                       [] t2 = "response"
                            /\ VerifyResponse(st2, h2, AllowedArg(cfg))
                            /\ ~json_ok ->
                            Exit(4, "JSON", "release")
                       [] OTHER ->
                            /\ pc' = "gitlab"
                            /\ UNCHANGED <<exit_code, error>>

ImportRaisedUncaught == Exit(1, "Transport", "gitlab")

\* except Exception in main(): the failure is printed and the run goes on
ImportRaised ==
    /\ pc' = "summary"
    /\ UNCHANGED <<exit_code, error>>

\* the GitLab step of main() with import_to_gitlab
ImportToGitLab ==
    /\ pc = "gitlab"
    /\ UNCHANGED <<env, cfg, source, max_attempts, r, fork_full_name>>
    /\ UNCHANGED WaitVars
    /\ IF ~env.gitlab_token
       THEN /\ gitlab' = "skipped"
            /\ pc' = "summary"
            /\ UNCHANGED <<issued, exit_code, error>>
       ELSE \E t \in Transport, st \in ImportStatuses, json_ok \in BOOLEAN,
               t2 \in Transport, st2 \in {200, 404} :
              CASE t = "raises" ->
                     /\ issued' = issued \cup {"gitlab_post"}
                     /\ gitlab' = "raised"
                     /\ ImportRaised
                [] t = "response" /\ st = 201 ->
                     /\ issued' = issued \cup {"gitlab_post"}
                     /\ gitlab' = IF json_ok THEN "url" ELSE "raised"
                     /\ IF json_ok
                        THEN pc' = "summary" /\ UNCHANGED <<exit_code, error>>
                        ELSE ImportRaised
                [] t = "response" /\ st = 409 ->
                     /\ issued' = issued \cup {"gitlab_post", "gitlab_get"}
                     /\ gitlab' = IF t2 = "raises" \/ (st2 = 200 /\ ~json_ok)
                                  THEN "raised"
                                  ELSE IF st2 = 200 THEN "url" ELSE "none_returned"
                     /\ IF t2 = "raises" \/ (st2 = 200 /\ ~json_ok)
                        THEN ImportRaised
                        ELSE pc' = "summary" /\ UNCHANGED <<exit_code, error>>
                [] OTHER ->
                     \* any other status is printed, None is returned
                     /\ issued' = issued \cup {"gitlab_post"}
                     /\ gitlab' = "rejected"
                     /\ pc' = "summary"
                     /\ UNCHANGED <<exit_code, error>>

\* the summary, its signature when HMAC_SECRET is set, "Done" and return 0
Summary ==
    /\ pc = "summary"
    /\ issued' = issued \cup (IF env.hmac_secret THEN {"hmac"} ELSE {}) \cup {"done"}
    /\ pc' = "exit"
    /\ exit_code' = 0
    /\ UNCHANGED <<env, cfg, source, max_attempts, r, fork_full_name, error, gitlab>>
    /\ UNCHANGED WaitVars

Next ==
    \/ MainStart
    \/ ForkCreate
    \/ PollCheck
    \/ Sleep
    \/ PollExhausted
    \/ EnsureRelease
    \/ ImportToGitLab
    \/ Summary

-----------------------------------------------------------------------------
(* The specification: the program started from three families of inputs *)

PlainCfg == [github_org |-> <<>>, github_user |-> <<"usr">>,
             require_mime |-> FALSE, allowed_mime |-> {}]

\* every loop bound; the configuration is one the loop does not read
InitWait ==
    InitOver({PlainCfg},
             [github_token : BOOLEAN, gitlab_token : {FALSE},
              hmac_secret : {FALSE}, actor : {None}],
             {<<"o", "/", "r">>}, AttemptBounds)

\* every configuration, environment and source the creation step reads
InitFork ==
    InitOver(Cfgs,
             [github_token : BOOLEAN, gitlab_token : {FALSE},
              hmac_secret : {FALSE}, actor : Actors],
             Sources, {SmallAttempts})

\* every combination of tokens main() reads
InitMain ==
    InitOver({c \in Cfgs : c.github_org = <<>> /\ c.github_user = <<"usr">>},
             [github_token : BOOLEAN, gitlab_token : BOOLEAN,
              hmac_secret : BOOLEAN, actor : {None}],
             Sources, 0..SmallAttempts)

Init == InitWait \/ InitFork \/ InitMain

Spec == Init /\ [][Next]_vars

-----------------------------------------------------------------------------
(* Vocabulary of the properties *)

\* the outcome of one existence check as the properties name it: a found
\* status is ready, a not-found status not-ready, any other permanent-error
C3_PollOutcome(status) ==
    IF status = 200 THEN "ready"
    ELSE IF status = 404 THEN "not-ready"
    ELSE "permanent-error"

\* the creation response was accepted and the polling loop was entered
WaitStarted == r # NoResponse /\ error.at \notin {"main", "create"}

\* fork_github_repo returned the fork name to main()
WaitSucceeded ==
    \/ pc \in {"release", "gitlab", "summary"}
    \/ pc = "exit" /\ error.at \notin {"main", "create", "poll"}

\* fork_github_repo raised the timeout error
WaitTimedOut == pc = "exit" /\ error = [kind |-> "Timeout", at |-> "poll"]

\* the wait is over, one way or the other
WaitEnded == WaitStarted /\ pc \notin {"poll", "sleep"}

\* the state of the waiter
WaiterState ==
    CASE ~WaitStarted -> "Idle"
      [] pc \in {"poll", "sleep"} -> "Polling"
      [] WaitSucceeded -> "Ready"
      [] WaitTimedOut -> "TimedOut"
      [] OTHER -> "Failed"

\* every check answered so far was answered not-ready
AllNotReady == checks > 0 /\ first_ready = 0 /\ first_other = 0 /\ last_status # -1

-----------------------------------------------------------------------------
(* Properties *)

\* C1: when the checks 1..k-1 are answered not-ready and check k is answered
\* ready (1 <= k <= max_attempts), the wait has succeeded with exactly k
\* checks and exactly k-1 sleeps, from the ready check on.
C1_ReadyOnAttemptK ==
    \A k \in 1..max_attempts :
        (first_ready = k /\ (first_other = 0 \/ first_other > k))
            => (WaitSucceeded /\ checks = k /\ sleeps = k - 1)

\* max_attempts = 3, answers not-ready, not-ready, ready
C1_Witness ==
    /\ max_attempts = 3
    /\ first_ready = 3
    /\ first_other = 0
    /\ WaitSucceeded
    /\ checks = 3
    /\ sleeps = 2

\* C2: when every check is answered not-ready (max_attempts >= 1), the wait
\* ends with exactly max_attempts checks and max_attempts - 1 sleeps in the
\* timeout error.
C2_Original ==
    (max_attempts >= 1 /\ WaitEnded /\ AllNotReady)
        => (WaitTimedOut /\ checks = max_attempts /\ sleeps = max_attempts - 1)

\* C3: when check k is the first answered with a permanent error, the wait
\* makes exactly k checks, no sleep and no check after it, and has failed
\* with an error that is not the timeout.
C3_Original ==
    first_other >= 1
        => /\ checks = first_other
           /\ sleeps = first_other - 1
           /\ WaiterState = "Failed"
           /\ ~WaitTimedOut

\* C4: the wait has reported success only if one of its checks was answered
\* ready, whatever the attempt bound is (0 included).
C4_SuccessNeedsReady == WaitSucceeded => first_ready >= 1

C4_Witness ==
    /\ WaitSucceeded
    /\ first_ready = checks
    /\ checks >= 2
    /\ last_status = 200

\* C5: the number of existence checks issued is at most max_attempts.
C5_ChecksBounded == checks <= max_attempts

C5_Witness ==
    /\ max_attempts = DefaultAttempts
    /\ checks = DefaultAttempts
    /\ first_other >= 1

\* C6: the waiter starts in Polling; a ready check takes it to Ready, a
\* permanent-error check to Failed, a not-ready check leaves it in Polling
\* or, the attempts used up, takes it to TimedOut; Ready, TimedOut and Failed
\* are terminal: no check, no sleep and no change of state after them.
C6_Original ==
    [][ /\ (WaiterState = "Idle" /\ WaiterState' # "Idle" /\ pc' # "exit")
              => WaiterState' = "Polling"
        /\ WaiterState \in {"Ready", "TimedOut", "Failed"}
              => /\ WaiterState' = WaiterState
                 /\ checks' = checks
                 /\ sleeps' = sleeps
        /\ WaiterState = "Polling"
              => WaiterState' \in {"Polling", "Ready", "TimedOut", "Failed"}
        /\ (WaiterState = "Polling" /\ checks' = checks + 1 /\ last_status' # -1)
              => CASE C3_PollOutcome(last_status') = "ready" ->
                        WaiterState' = "Ready"
                   [] C3_PollOutcome(last_status') = "permanent-error" ->
                        WaiterState' = "Failed"
                   [] OTHER -> WaiterState' \in {"Polling", "TimedOut"}
        /\ (WaiterState = "Polling" /\ WaiterState' = "TimedOut")
              => (first_ready' = 0 /\ checks' = max_attempts)
      ]_vars

\* C7: the total time slept is the number of sleeps times the delay and is
\* at most max_attempts times the delay.
C7_SleptBounded ==
    /\ slept = sleeps * Delay
    /\ slept <= max_attempts * Delay

C7_Witness ==
    /\ max_attempts = DefaultAttempts
    /\ slept = DefaultAttempts * Delay
    /\ WaitTimedOut

\* the creation response is rejected: its status is outside 200..299, or MIME
\* checking is required and its MIME type is not an allowed one
C8_Rejected(resp) ==
    \/ resp.status \notin 200..299
    \/ cfg.require_mime /\ MediaType(resp.ctype) \notin cfg.allowed_mime

\* C8: no existence check is issued before the creation request has returned,
\* and a rejected creation response ends the operation in failure with no
\* check and no sleep.
C8_Original ==
    /\ (checks > 0 \/ sleeps > 0) => ("fork_post" \in issued /\ r # NoResponse)
    /\ (r # NoResponse /\ C8_Rejected(r))
          => (checks = 0 /\ sleeps = 0 /\ pc = "exit" /\ exit_code = 4)

\* the first non-empty of organization, user, GITHUB_ACTOR, else ''
C9_Target ==
    IF cfg.github_org # <<>> THEN cfg.github_org
    ELSE IF cfg.github_user # <<>> THEN cfg.github_user
    ELSE IF env.actor.kind = "str" /\ env.actor.val # <<>> THEN env.actor.val
    ELSE <<>>

\* C9: the handle is the full_name of the creation response when that is
\* present and non-empty, else '<target>/<repo>' with repo what follows the
\* first '/' of the source; every check is issued for that handle, which is
\* the value main() gets on success.
C9_Handle ==
    WaitStarted =>
      /\ IF r.full_name.kind = "str" /\ r.full_name.val # <<>>
         THEN fork_full_name = r.full_name.val
         ELSE \E k \in 1..Len(source) :
                /\ source[k] = "/"
                /\ \A j \in 1..(k - 1) : source[j] # "/"
                /\ fork_full_name =
                     C9_Target \o <<"/">> \o SubSeq(source, k + 1, Len(source))
      /\ polled \subseteq {fork_full_name}
      /\ checks > 0 => polled = {fork_full_name}

C9_Witness ==
    /\ WaitSucceeded
    /\ checks >= 2
    /\ r.full_name = None
    /\ cfg.github_org = <<>>
    /\ cfg.github_user # <<>>
    /\ source = <<"o", "/", "r", "/", "x">>
    /\ polled = {cfg.github_user \o <<"/", "r", "/", "x">>}

GitLabRequests == {"gitlab_post", "gitlab_get"}

\* C10: the release requests come only after the wait succeeded; the GitLab
\* import and the signature only after fork and release both succeeded; a
\* failure of creation, wait or release exits with code 4 and no GitLab
\* request; a failed GitLab import still ends in "Done" and return value 0.
C10_Gating ==
    /\ (issued \cap {"releases_get", "releases_post"} # {}) => WaitSucceeded
    /\ (issued \cap (GitLabRequests \cup {"hmac"}) # {})
          => (WaitSucceeded /\ error.at # "release" /\ pc \in {"summary", "exit"})
    /\ (pc = "exit" /\ error.at \in {"create", "poll", "release"})
          => (exit_code = 4 /\ issued \cap (GitLabRequests \cup {"hmac", "done"}) = {})
    /\ gitlab \in {"raised", "rejected", "none_returned"}
          => /\ pc \in {"summary", "exit"}
             /\ pc = "exit" => (exit_code = 0 /\ "done" \in issued)

C10_Witness ==
    /\ pc = "exit"
    /\ gitlab = "raised"
    /\ exit_code = 0
    /\ issued = {"fork_post", "repo_get", "releases_get", "releases_post",
                 "gitlab_post", "hmac", "done"}

====
